---- MODULE Spec2Model ----
(***************************************************************************)
(* venuesphere backend: the four request handlers of app.py               *)
(* (register_user, login_user, get_profile, add_venue), the seed command, *)
(* and the tables of models.py they read and write.                       *)
(*                                                                         *)
(* The relational store enforces the schema models.py declares: unique     *)
(* columns, primary keys, foreign keys and the user_type ENUM.             *)
(* A request body is a function from the keys it carries to their values,  *)
(* so `key in data` is  key \in DOMAIN data.                               *)
(***************************************************************************)
EXTENDS Integers, Sequences, FiniteSets, TLC

VARIABLES users, customer_profiles, provider_profiles, venue_categories,
          amenities, venues, last, created, pc, loc

vars == <<users, customer_profiles, provider_profiles, venue_categories,
          amenities, venues, last, created, pc, loc>>

store_vars == <<users, customer_profiles, provider_profiles, venue_categories,
                amenities, venues>>

\* ------------------------------------------------------------------ bounds
MaxVenues == 1
NumProcs == 2

\* ------------------------------------------------------- strings and enums
\* Role tags are character sequences, so that case-folding is computed.
CUSTOMER == <<"C","U","S","T","O","M","E","R">>
PROVIDER == <<"P","R","O","V","I","D","E","R">>
ADMIN == <<"A","D","M","I","N">>

UserType == {CUSTOMER, PROVIDER, ADMIN}

LowerCase == <<"a","b","c","d","e","f","g","h","i","j","k","l","m",
               "n","o","p","q","r","s","t","u","v","w","x","y","z">>
UpperCase == <<"A","B","C","D","E","F","G","H","I","J","K","L","M",
               "N","O","P","Q","R","S","T","U","V","W","X","Y","Z">>

upper_char(c) ==
    IF \E i \in 1..26 : LowerCase[i] = c
    THEN UpperCase[CHOOSE i \in 1..26 : LowerCase[i] = c]
    ELSE c

\* str.upper()
str_upper(s) == [i \in 1..Len(s) |-> upper_char(s[i])]

Digits == <<"0","1","2","3","4","5","6","7","8","9">>

RECURSIVE str(_)
\* str(user.id): decimal digits of a non-negative integer
str(n) == IF n < 10 THEN <<Digits[n + 1]>>
          ELSE str(n \div 10) \o <<Digits[(n % 10) + 1]>>

digit_value(c) == (CHOOSE i \in 1..10 : Digits[i] = c) - 1

RECURSIVE int(_)
\* the store's cast of a decimal string to an integer primary key
int(s) == IF Len(s) = 0 THEN 0
          ELSE 10 * int(SubSeq(s, 1, Len(s) - 1)) + digit_value(s[Len(s)])

\* ------------------------------------------------------------- collaborators
\* variant: verification only looks at the hash's scheme
check_password_hash_scheme_only(pw_hash, password) == pw_hash[1] = "bcrypt"

\* bcrypt: a one-way function of the plaintext; verification recomputes it.
generate_password_hash(password) == <<"bcrypt", password>>

\* bcrypt.check_password_hash
check_password_hash(pw_hash, password) == pw_hash = generate_password_hash(password)

\* flask_jwt_extended: the token carries the identity it was issued for.
create_access_token(identity) == [sub |-> identity]

get_jwt_identity(token) == token.sub

\* ------------------------------------------------------------------ responses
EmptyBody == [k \in {} |-> ""]

Response(status, body) == [status |-> status, body |-> body]

NoResponse == Response(0, EmptyBody)

Snapshot == [users |-> users, customer_profiles |-> customer_profiles,
             provider_profiles |-> provider_profiles, venues |-> venues]

\* ---------------------------------------------------------------- the store
NextId(rows) == Cardinality(rows) + 1

\* variant: the pre-check filters on the wrong column
EmailRegistered_wrong_column(U, email) == \E u \in U : u.phone_number = email

\* User.query.filter_by(email=...).first(): case-sensitive exact match
EmailRegistered(U, email) == \E u \in U : u.email = email

\* variant: the email column is declared without unique=True
EmailUnique_undeclared(U, row) == TRUE

\* users.email unique=True
EmailUnique(U, row) == ~ \E u \in U : u.email = row.email

\* users.phone_number unique=True
PhoneUnique(U, row) == ~ \E u \in U : u.phone_number = row.phone_number

\* users.user_type is an ENUM of UserType
UserTypeInEnum(row) == row.user_type \in UserType

\* INSERT INTO users succeeds
UserInsertOK(U, row) ==
    /\ EmailUnique(U, row)
    /\ PhoneUnique(U, row)
    /\ UserTypeInEnum(row)
    /\ ~ \E u \in U : u.id = row.id

\* INSERT INTO customer_profiles / provider_profiles succeeds:
\* user_id is the primary key and a foreign key to users.id
ProfileInsertOK(U, profiles, row) ==
    /\ \E u \in U : u.id = row.user_id
    /\ ~ \E p \in profiles : p.user_id = row.user_id

\* User.query.get(identity)
UserGet(U, identity) == {u \in U : u.id = int(identity)}

\* ------------------------------------------------------------ request inputs
Emails == {"a@b.com", "A@b.com"}
Phones == {"555-0100", "555-0101"}
Passwords == {"pw123456", "hunter22"}

\* role tags as clients send them: lower, mixed and upper case, and unknown
RoleTags == { <<"c","u","s","t","o","m","e","r">>,
              <<"P","r","o","v","i","d","e","r">>,
              ADMIN,
              <<"g","u","e","s","t">> }

Without(d, k) == [x \in DOMAIN d \ {k} |-> d[x]]

FullRegisterBody(e, ph, t) ==
    [email |-> e, password |-> "pw123456", phone_number |-> ph, user_type |-> t,
     first_name |-> "A", last_name |-> "B", company_name |-> "Acme"]

RegisterBodies ==
    {EmptyBody,
     Without(FullRegisterBody("a@b.com", "555-0100", ADMIN), "password"),
     Without(FullRegisterBody("a@b.com", "555-0100", <<"c","u","s","t","o","m","e","r">>),
             "last_name"),
     Without(FullRegisterBody("a@b.com", "555-0100", <<"P","r","o","v","i","d","e","r">>),
             "company_name")}
    \cup {FullRegisterBody(e, ph, t) : e \in Emails, ph \in Phones, t \in RoleTags}

\* storage failures the environment can inject: at the User commit (app.py 66)
\* or at the Profile commit (app.py 85)
RegisterFaults == {"none", "user", "profile"}

\* --------------------------------------------------------------- register_user
required_fields == {"email", "password", "phone_number", "user_type"}

\* app.py 41-52: field validation, then the email pre-check.
\* NoResponse means the request goes on to the writes.
register_check(U, data) ==
    IF data = EmptyBody \/ ~ (required_fields \subseteq DOMAIN data)
    THEN Response(400, [error |-> "Missing required fields"])
    ELSE LET user_type == str_upper(data.user_type) IN
         IF user_type = CUSTOMER /\ ~ ({"first_name", "last_name"} \subseteq DOMAIN data)
         THEN Response(400, [error |-> "Customer profile requires first_name and last_name"])
         ELSE IF user_type = PROVIDER /\ ~ ("company_name" \in DOMAIN data)
         THEN Response(400, [error |-> "Provider profile requires company_name"])
         ELSE IF EmailRegistered(U, data.email)
         THEN Response(409, [error |-> "Email address already registered"])
         ELSE NoResponse

\* app.py 54-61
new_user(U, data) ==
    [id |-> NextId(U),
     email |-> data.email,
     password_hash |-> generate_password_hash(data.password),
     phone_number |-> data.phone_number,
     user_type |-> str_upper(data.user_type)]

\* variant: the CUSTOMER branch builds a ProviderProfile
profile_for_wrong_kind(user, data) ==
    IF user.user_type = CUSTOMER \/ user.user_type = PROVIDER
    THEN [kind |-> "provider",
          row |-> [user_id |-> user.id, company_name |-> data.company_name,
                   is_verified |-> FALSE]]
    ELSE [kind |-> "none", row |-> EmptyBody]

\* app.py 69-82: the profile built for the committed user
profile_for(user, data) ==
    IF user.user_type = CUSTOMER
    THEN [kind |-> "customer",
          row |-> [user_id |-> user.id, first_name |-> data.first_name,
                   last_name |-> data.last_name]]
    ELSE IF user.user_type = PROVIDER
    THEN [kind |-> "provider",
          row |-> [user_id |-> user.id, company_name |-> data.company_name,
                   is_verified |-> FALSE]]
    ELSE [kind |-> "none", row |-> EmptyBody]

DatabaseError == Response(500, [error |-> "Database error", details |-> "storage failure"])

InvalidUserType == Response(400, [error |-> "Invalid user type for profile creation"])

Registered(user) ==
    Response(201, [message |-> "User and profile registered successfully!",
                   user |-> [id |-> user.id, email |-> user.email,
                             user_type |-> user.user_type]])

\* first commit, app.py 65-66: TRUE iff the User row is committed
user_commit_ok(U, user, failed) == ~ failed /\ UserInsertOK(U, user)

\* second part, app.py 69-89, run after the User row is committed in U2:
\* the profile tables and the response
profile_step(U2, C, P, user, data, failed) ==
    LET prof == profile_for(user, data) IN
    IF prof.kind = "none"
    THEN [customer_profiles |-> C, provider_profiles |-> P, resp |-> InvalidUserType]
    ELSE IF prof.kind = "customer"
    THEN IF ~ failed /\ ProfileInsertOK(U2, C, prof.row)
         THEN [customer_profiles |-> C \cup {prof.row}, provider_profiles |-> P,
               resp |-> Registered(user)]
         ELSE [customer_profiles |-> C, provider_profiles |-> P, resp |-> DatabaseError]
    ELSE IF ~ failed /\ ProfileInsertOK(U2, P, prof.row)
         THEN [customer_profiles |-> C, provider_profiles |-> P \cup {prof.row},
               resp |-> Registered(user)]
         ELSE [customer_profiles |-> C, provider_profiles |-> P, resp |-> DatabaseError]

\* the whole handler on a store (U, C, P)
register_result(U, C, P, data, fault) ==
    LET chk == register_check(U, data) IN
    IF chk # NoResponse
    THEN [users |-> U, customer_profiles |-> C, provider_profiles |-> P, resp |-> chk]
    ELSE LET user == new_user(U, data) IN
         IF ~ user_commit_ok(U, user, fault = "user")
         THEN [users |-> U, customer_profiles |-> C, provider_profiles |-> P,
               resp |-> DatabaseError]
         ELSE LET U2 == U \cup {user}
                  r == profile_step(U2, C, P, user, data, fault = "profile")
              IN [users |-> U2, customer_profiles |-> r.customer_profiles,
                  provider_profiles |-> r.provider_profiles, resp |-> r.resp]

\* a commit can only fail in a request that executes it
fault_reachable(U, data, fault) ==
    \/ fault = "none"
    \/ /\ fault = "user"
       /\ register_check(U, data) = NoResponse
    \/ /\ fault = "profile"
       /\ register_check(U, data) = NoResponse
       /\ user_commit_ok(U, new_user(U, data), FALSE)
       /\ profile_for(new_user(U, data), data).kind # "none"

register_user(data, fault) ==
    LET r == register_result(users, customer_profiles, provider_profiles, data, fault) IN
    /\ fault_reachable(users, data, fault)
    /\ users' = r.users
    /\ customer_profiles' = r.customer_profiles
    /\ provider_profiles' = r.provider_profiles
    /\ last' = [op |-> "register", req |-> data, fault |-> fault,
                resp |-> r.resp, pre |-> Snapshot]
    /\ UNCHANGED <<venue_categories, amenities, venues, created, pc, loc>>

\* ------------------------------------------------------------------- login_user
LoginBodies ==
    {EmptyBody}
    \cup {[email |-> e, password |-> pw] : e \in Emails \cup {"x@y.com"}, pw \in Passwords}
    \cup {[email |-> e] : e \in Emails}

InvalidCredentials == Response(401, [error |-> "Invalid credentials"])

login_result(U, data) ==
    IF data = EmptyBody \/ ~ ("email" \in DOMAIN data) \/ ~ ("password" \in DOMAIN data)
    THEN Response(400, [error |-> "Missing email or password"])
    ELSE LET found == {u \in U : u.email = data.email}
             user == CHOOSE u \in found : TRUE   \* .first()
         IN IF found # {} /\ check_password_hash(user.password_hash, data.password)
            THEN Response(200, [access_token |-> create_access_token(str(user.id))])
            ELSE InvalidCredentials

login_user(data) ==
    /\ last' = [op |-> "login", req |-> data, fault |-> "none",
                resp |-> login_result(users, data), pre |-> Snapshot]
    /\ UNCHANGED <<store_vars, created, pc, loc>>

\* ------------------------------------------------------------------ get_profile
\* identities a verified token can carry: ids of stored users and one more
Identities == {str(i) : i \in 1..(Cardinality(Emails) + 1)}

ProfileOf(profiles, user) == {p \in profiles : p.user_id = user.id}

\* an exception that no handler catches: Flask answers 500
InternalServerError == Response(500, [error |-> "Internal Server Error"])

get_profile_result(U, C, P, identity) ==
    LET found == UserGet(U, identity) IN
    IF found = {}
    THEN Response(404, [error |-> "User not found"])
    ELSE LET user == CHOOSE u \in found : TRUE IN
         IF user.user_type = CUSTOMER
         THEN IF ProfileOf(C, user) = {}
              THEN InternalServerError   \* None.first_name
              ELSE LET profile_data == CHOOSE p \in ProfileOf(C, user) : TRUE IN
                   Response(200, [id |-> user.id, email |-> user.email,
                                  first_name |-> profile_data.first_name,
                                  last_name |-> profile_data.last_name])
         ELSE IF user.user_type = PROVIDER
         THEN IF ProfileOf(P, user) = {}
              THEN InternalServerError   \* None.company_name
              ELSE LET profile_data == CHOOSE p \in ProfileOf(P, user) : TRUE IN
                   Response(200, [id |-> user.id, email |-> user.email,
                                  company_name |-> profile_data.company_name,
                                  is_verified |-> profile_data.is_verified])
         ELSE Response(404, [error |-> "Profile not found for user type"])

get_profile(identity) ==
    /\ last' = [op |-> "profile", req |-> [identity |-> identity], fault |-> "none",
                resp |-> get_profile_result(users, customer_profiles,
                                            provider_profiles, identity),
                pre |-> Snapshot]
    /\ UNCHANGED <<store_vars, created, pc, loc>>

\* -------------------------------------------------------------------- add_venue
\* Python None / SQL NULL
None == "None"

dict_get(d, k) == IF k \in DOMAIN d THEN d[k] ELSE None

FullVenueBody(cat) ==
    [name |-> "Hall", category_id |-> cat, address |-> "1 Main St",
     capacity |-> 100, price_per_hour |-> "150.00"]

\* a body that also tries to set the owner and the status
OverridingVenueBody(cat, owner) ==
    [name |-> "Hall", category_id |-> cat, address |-> "1 Main St",
     capacity |-> 100, price_per_hour |-> "150.00", description |-> "Big",
     provider_id |-> owner, status |-> "APPROVED"]

VenueBodies ==
    {Without(FullVenueBody(1), "name"), FullVenueBody(1), FullVenueBody(9),
     OverridingVenueBody(1, 1)}

VenueFaults == {"none", "venue"}

venue_required_fields == {"name", "category_id", "address", "capacity", "price_per_hour"}

\* variant: the check only asks that the user exists
is_provider_any_user(found) == found # {}

\* app.py 154
is_provider(found) == \E u \in found : u.user_type = PROVIDER

\* variant: owner and status are taken from the body when it names them
new_venue_from_body(V, user, data) ==
    [id |-> NextId(V),
     provider_id |-> IF "provider_id" \in DOMAIN data THEN data.provider_id ELSE user.id,
     name |-> data.name,
     category_id |-> data.category_id,
     address |-> data.address,
     capacity |-> data.capacity,
     price_per_hour |-> data.price_per_hour,
     description |-> IF "description" \in DOMAIN data THEN data.description ELSE "None",
     latitude |-> "None",
     longitude |-> "None",
     status |-> IF "status" \in DOMAIN data THEN data.status ELSE "UNDER_REVIEW"]

\* app.py 164-174; status takes the column default
new_venue(V, user, data) ==
    [id |-> NextId(V),
     provider_id |-> user.id,
     name |-> data.name,
     category_id |-> data.category_id,
     address |-> data.address,
     capacity |-> data.capacity,
     price_per_hour |-> data.price_per_hour,
     description |-> dict_get(data, "description"),
     latitude |-> dict_get(data, "latitude"),
     longitude |-> dict_get(data, "longitude"),
     status |-> "UNDER_REVIEW"]

\* INSERT INTO venues succeeds: both foreign keys resolve
VenueInsertOK(V, P, cats, row) ==
    /\ \E p \in P : p.user_id = row.provider_id
    /\ \E c \in cats : c.id = row.category_id
    /\ ~ \E v \in V : v.id = row.id

add_venue_result(U, P, cats, V, identity, data, fault) ==
    LET found == UserGet(U, identity) IN
    IF ~ is_provider(found)
    THEN [venues |-> V, resp |-> Response(403, [msg |-> "Access forbidden: Providers only"])]
    ELSE IF ~ (venue_required_fields \subseteq DOMAIN data)
    THEN [venues |-> V, resp |-> Response(400, [error |-> "Missing required fields"])]
    ELSE LET user == CHOOSE u \in found : TRUE
             venue == new_venue(V, user, data)
         IN IF fault = "none" /\ VenueInsertOK(V, P, cats, venue)
            THEN [venues |-> V \cup {venue},
                  resp |-> Response(201,
                      [message |-> "Venue created successfully and is under review.",
                       venue_id |-> venue.id])]
            ELSE [venues |-> V, resp |-> DatabaseError]

\* the commit (app.py 179) can only fail in a request that executes it
venue_fault_reachable(U, identity, data, fault) ==
    \/ fault = "none"
    \/ /\ is_provider(UserGet(U, identity))
       /\ venue_required_fields \subseteq DOMAIN data

add_venue(identity, data, fault) ==
    LET r == add_venue_result(users, provider_profiles, venue_categories, venues,
                              identity, data, fault) IN
    /\ Cardinality(venues) < MaxVenues
    /\ venue_fault_reachable(users, identity, data, fault)
    /\ venues' = r.venues
    /\ created' = IF r.resp.status = 201
                  THEN created \cup {[venue_id |-> r.resp.body.venue_id,
                                      identity |-> identity]}
                  ELSE created
    /\ last' = [op |-> "venue", req |-> [identity |-> identity, data |-> data],
                fault |-> fault, resp |-> r.resp, pre |-> Snapshot]
    /\ UNCHANGED <<users, customer_profiles, provider_profiles, venue_categories,
                   amenities, pc, loc>>

\* -------------------------------------------------------------------- seed_data
SeedCategories ==
    {[id |-> 1, name |-> "Wedding Hall"],
     [id |-> 2, name |-> "Conference Room"],
     [id |-> 3, name |-> "Outdoor Space"]}

SeedAmenities ==
    {[id |-> 1, name |-> "Free Wi-Fi"],
     [id |-> 2, name |-> "Parking Available"],
     [id |-> 3, name |-> "Projector"],
     [id |-> 4, name |-> "Air Conditioning"],
     [id |-> 5, name |-> "Catering Services"]}

seed_data ==
    /\ venue_categories' = IF venue_categories # {} THEN venue_categories
                           ELSE SeedCategories
    /\ amenities' = IF amenities # {} THEN amenities ELSE SeedAmenities
    /\ UNCHANGED <<users, customer_profiles, provider_profiles, venues,
                   last, created, pc, loc>>

\* ------------------------------------------------ sequential specification
Procs == 1..NumProcs

IdleLoc == [data |-> EmptyBody, user_id |-> 0, resp |-> NoResponse, rivals |-> {}]

\* db.create_all(): empty tables
Init ==
    /\ users = {}
    /\ customer_profiles = {}
    /\ provider_profiles = {}
    /\ venue_categories = {}
    /\ amenities = {}
    /\ venues = {}
    /\ created = {}
    /\ last = [op |-> "none", req |-> EmptyBody, fault |-> "none",
               resp |-> NoResponse, pre |-> Snapshot]
    /\ pc = [p \in Procs |-> "idle"]
    /\ loc = [p \in Procs |-> IdleLoc]

Register == \E data \in RegisterBodies, fault \in RegisterFaults : register_user(data, fault)

Login == \E data \in LoginBodies : login_user(data)

GetProfile == \E identity \in Identities : get_profile(identity)

AddVenue ==
    \E identity \in Identities, data \in VenueBodies, fault \in VenueFaults :
        add_venue(identity, data, fault)

Seed == seed_data

Next == Register \/ Login \/ GetProfile \/ AddVenue \/ Seed

Spec == Init /\ [][Next]_vars

\* ------------------------------------------------ interleaved registrations
\* Two register requests served concurrently.  Each runs app.py 37-52, then
\* the first commit (66), then the profile and the second commit (69-89);
\* the store serialises the commits.  loc[p].rivals is the set of requests
\* with the same email that were past the pre-check, their User row not yet
\* inserted, when p passed its own pre-check (and vice versa).
race_begin(p, data) ==
    LET chk == register_check(users, data)
        R == {q \in Procs \ {p} : pc[q] = "checked" /\ loc[q].data.email = data.email}
    IN
    /\ pc[p] = "idle"
    /\ IF chk # NoResponse
       THEN /\ pc' = [pc EXCEPT ![p] = "done"]
            /\ loc' = [loc EXCEPT ![p] = [data |-> data, user_id |-> 0,
                                          resp |-> chk, rivals |-> {}]]
       ELSE /\ pc' = [pc EXCEPT ![p] = "checked"]
            /\ loc' = [q \in Procs |->
                         IF q = p
                         THEN [data |-> data, user_id |-> 0,
                               resp |-> NoResponse, rivals |-> R]
                         ELSE IF q \in R
                         THEN [loc[q] EXCEPT !.rivals = @ \cup {p}]
                         ELSE loc[q]]
    /\ UNCHANGED <<store_vars, last, created>>

race_commit_user(p, failed) ==
    LET user == new_user(users, loc[p].data) IN
    /\ pc[p] = "checked"
    /\ IF user_commit_ok(users, user, failed)
       THEN /\ users' = users \cup {user}
            /\ pc' = [pc EXCEPT ![p] = "user_committed"]
            /\ loc' = [loc EXCEPT ![p].user_id = user.id]
       ELSE /\ users' = users
            /\ pc' = [pc EXCEPT ![p] = "done"]
            /\ loc' = [loc EXCEPT ![p].resp = DatabaseError]
    /\ UNCHANGED <<customer_profiles, provider_profiles, venue_categories,
                   amenities, venues, last, created>>

race_commit_profile(p, failed) ==
    /\ pc[p] = "user_committed"
    /\ LET user == CHOOSE u \in users : u.id = loc[p].user_id
           r == profile_step(users, customer_profiles, provider_profiles,
                             user, loc[p].data, failed)
       IN /\ customer_profiles' = r.customer_profiles
          /\ provider_profiles' = r.provider_profiles
          /\ loc' = [loc EXCEPT ![p].resp = r.resp]
    /\ pc' = [pc EXCEPT ![p] = "done"]
    /\ UNCHANGED <<users, venue_categories, amenities, venues, last, created>>

RaceBegin == \E p \in Procs, data \in RegisterBodies : race_begin(p, data)

RaceCommitUser == \E p \in Procs, failed \in BOOLEAN : race_commit_user(p, failed)

RaceCommitProfile == \E p \in Procs, failed \in BOOLEAN : race_commit_profile(p, failed)

NextRace == RaceBegin \/ RaceCommitUser \/ RaceCommitProfile

SpecRace == Init /\ [][NextRace]_vars

\* ======================================================================
\* Properties
\* ======================================================================
StoreUnchanged ==
    /\ users = last.pre.users
    /\ customer_profiles = last.pre.customer_profiles
    /\ provider_profiles = last.pre.provider_profiles
    /\ venues = last.pre.venues

\* the role a tag denotes, written out case by case
TagMeans(tag) ==
    IF tag = <<"c","u","s","t","o","m","e","r">> THEN CUSTOMER
    ELSE IF tag = <<"P","r","o","v","i","d","e","r">> THEN PROVIDER
    ELSE tag

\* the request carries every field its role needs
FieldsComplete(req) ==
    /\ {"email", "password", "phone_number", "user_type"} \subseteq DOMAIN req
    /\ TagMeans(req.user_type) = CUSTOMER => {"first_name", "last_name"} \subseteq DOMAIN req
    /\ TagMeans(req.user_type) = PROVIDER => "company_name" \in DOMAIN req

AtMostOneUserPerEmail ==
    \A u1 \in users, u2 \in users : u1.email = u2.email => u1 = u2

\* C1: a register call during which a storage failure occurs, at the User
\* write or at the Profile write, fails with StorageError (500) and leaves in
\* storage no row it wrote.
C1_RegisterAllOrNothing ==
    (last.op = "register" /\ last.fault \in {"user", "profile"}) =>
        /\ last.resp.status = 500
        /\ StoreUnchanged

\* C2: a register call that passes field validation and the email pre-check,
\* with no storage failure, whose normalised role is outside
\* {CUSTOMER, PROVIDER} returns ValidationError (400) and storage holds
\* exactly the rows it held before.
C2_InvalidRoleLeavesNoRows ==
    (/\ last.op = "register"
     /\ last.fault = "none"
     /\ FieldsComplete(last.req)
     /\ ~ \E u \in last.pre.users : u.email = last.req.email
     /\ TagMeans(last.req.user_type) \notin {CUSTOMER, PROVIDER}) =>
        /\ last.resp.status = 400
        /\ StoreUnchanged

\* C3: a successful register call with role CUSTOMER (PROVIDER) adds exactly
\* one User row and exactly one CustomerProfile (ProviderProfile) row with that
\* user's id, no row of the other profile kind, and answers with the id, email
\* and role of the persisted User; a lower- or mixed-case tag counts as its
\* upper-case form, and such a request with a free email and phone number
\* and no storage failure succeeds.
C3_RegisterCreatesUserAndProfile ==
    /\ (last.op = "register" /\ last.resp.status = 201) =>
          LET newU == users \ last.pre.users
              newC == customer_profiles \ last.pre.customer_profiles
              newP == provider_profiles \ last.pre.provider_profiles
              role == TagMeans(last.req.user_type)
          IN /\ role \in {CUSTOMER, PROVIDER}
             /\ last.pre.users \subseteq users
             /\ last.pre.customer_profiles \subseteq customer_profiles
             /\ last.pre.provider_profiles \subseteq provider_profiles
             /\ Cardinality(newU) = 1
             /\ \A u \in newU :
                   /\ u.email = last.req.email
                   /\ u.user_type = role
                   /\ last.resp.body.user =
                          [id |-> u.id, email |-> u.email, user_type |-> role]
                   /\ role = CUSTOMER =>
                         /\ Cardinality(newC) = 1
                         /\ \A c \in newC : c.user_id = u.id
                         /\ newP = {}
                   /\ role = PROVIDER =>
                         /\ Cardinality(newP) = 1
                         /\ \A q \in newP : q.user_id = u.id
                         /\ newC = {}
    /\ (/\ last.op = "register"
        /\ last.fault = "none"
        /\ FieldsComplete(last.req)
        /\ TagMeans(last.req.user_type) \in {CUSTOMER, PROVIDER}
        /\ ~ \E u \in last.pre.users :
               u.email = last.req.email \/ u.phone_number = last.req.phone_number) =>
          last.resp.status = 201

\* C3 witness: a registration sent with a tag that is not upper case succeeded
C3_Witness ==
    /\ last.op = "register"
    /\ last.resp.status = 201
    /\ last.req.user_type \notin UserType

\* C4: a CustomerProfile row exists for an id iff a User with role CUSTOMER
\* exists for that id, and a ProviderProfile row iff a User with role PROVIDER.
C4_ProfileIffUserOfRole ==
    /\ \A c \in customer_profiles : \E u \in users : u.id = c.user_id /\ u.user_type = CUSTOMER
    /\ \A q \in provider_profiles : \E u \in users : u.id = q.user_id /\ u.user_type = PROVIDER
    /\ \A u \in users :
          /\ u.user_type = CUSTOMER => \E c \in customer_profiles : c.user_id = u.id
          /\ u.user_type = PROVIDER => \E q \in provider_profiles : q.user_id = u.id

\* C5 as stated: every register call whose email is that of a stored User
\* returns ConflictError (409) and writes no row; at most one User per email.
C5_DuplicateEmailAlwaysConflict ==
    /\ (/\ last.op = "register"
        /\ "email" \in DOMAIN last.req
        /\ \E u \in last.pre.users : u.email = last.req.email) =>
          /\ last.resp.status = 409
          /\ StoreUnchanged
    /\ AtMostOneUserPerEmail

\* C5 amended: a register call whose email is that of a stored User writes no
\* row, and returns ConflictError (409) when it carries every field its role
\* needs; at most one User row exists per email.
C5_DuplicateEmailConflict ==
    /\ (/\ last.op = "register"
        /\ "email" \in DOMAIN last.req
        /\ \E u \in last.pre.users : u.email = last.req.email) =>
          /\ StoreUnchanged
          /\ FieldsComplete(last.req) => last.resp.status = 409
    /\ AtMostOneUserPerEmail

\* C5 witness: a complete request with a stored email was answered
C5_Witness ==
    /\ last.op = "register"
    /\ FieldsComplete(last.req)
    /\ \E u \in last.pre.users : u.email = last.req.email

\* C6: a create-venue request whose identity is not a stored PROVIDER gets
\* AuthzError (403) and leaves the Venue rows unchanged, whatever its body.
C6_NonProviderForbidden ==
    (/\ last.op = "venue"
     /\ ~ \E u \in last.pre.users :
            str(u.id) = last.req.identity /\ u.user_type = PROVIDER) =>
        /\ last.resp.status = 403
        /\ venues = last.pre.venues

\* C6 witness: a CUSTOMER sent a body with a required field missing
C6_Witness ==
    /\ last.op = "venue"
    /\ \E u \in last.pre.users :
          str(u.id) = last.req.identity /\ u.user_type = CUSTOMER
    /\ "name" \notin DOMAIN last.req.data

C8_ProfileNotFound ==
    last.op = "profile" =>
        LET found == {u \in users : str(u.id) = last.req.identity} IN
        /\ found = {} => last.resp.status = 404
        /\ \A u \in found :
              LET mine == IF u.user_type = CUSTOMER
                          THEN {c \in customer_profiles : c.user_id = u.id}
                          ELSE IF u.user_type = PROVIDER
                          THEN {q \in provider_profiles : q.user_id = u.id}
                          ELSE {}
              IN IF mine = {}
                 THEN last.resp.status = 404
                 ELSE /\ last.resp.status = 200
                      /\ last.resp.body.id = u.id
                      /\ last.resp.body.email = u.email

\* C9: every Venue row was created by exactly one successful create-venue
\* request, belongs to the identity of that request, a PROVIDER User owning a
\* ProviderProfile row, and has status UNDER_REVIEW.
C9_VenueOwnedByCaller ==
    /\ \A v \in venues :
          /\ Cardinality({c \in created : c.venue_id = v.id}) = 1
          /\ \A c \in created : c.venue_id = v.id => c.identity = str(v.provider_id)
          /\ \E u \in users : u.id = v.provider_id /\ u.user_type = PROVIDER
          /\ \E q \in provider_profiles : q.user_id = v.provider_id
          /\ v.status = "UNDER_REVIEW"
    /\ \A v1 \in venues, v2 \in venues : v1.id = v2.id => v1 = v2
    /\ \A c \in created : \E v \in venues : v.id = c.venue_id

\* C9 witness: a venue was created from a body naming another owner and status
C9_Witness ==
    /\ last.op = "venue"
    /\ last.resp.status = 201
    /\ "provider_id" \in DOMAIN last.req.data
    /\ str(last.req.data.provider_id) # last.req.identity
    /\ last.req.data.status # "UNDER_REVIEW"

\* C10: when register requests with one email all pass the pre-check before
\* any of them inserts its User row, at most one of the inserts commits, no
\* state has two User rows for the email, and a request that lost to a rival
\* ends with an error and has no User or Profile row of its own.
C10_UniqueEmailArbitrates ==
    /\ AtMostOneUserPerEmail
    /\ \A p \in Procs : \A q \in loc[p].rivals :
          /\ ~ (loc[p].user_id # 0 /\ loc[q].user_id # 0)
          /\ (loc[q].user_id # 0 /\ pc[p] = "done") =>
                /\ loc[p].resp.status = 500
                /\ \A u \in users : u.email = loc[p].data.email => u.id = loc[q].user_id
                /\ \A c \in customer_profiles \cup provider_profiles :
                      \E u \in users : u.id = c.user_id

\* C10 witness: a request that raced a rival finished after the rival's insert
C10_Witness ==
    \E p \in Procs : \E q \in loc[p].rivals :
        /\ pc[p] = "done"
        /\ loc[q].user_id # 0
        /\ loc[p].resp.status = 500

====
